---- MODULE Spec2Model ----
(***************************************************************************)
(* A model of app/src/main.py: the SampleApp vehicle application.          *)
(*                                                                         *)
(* One asyncio event loop runs every coroutine of the application.  A      *)
(* coroutine runs without interruption from one await to the next, so each *)
(* action below is the code between two awaits of one coroutine.  A call   *)
(* of the signal port (set, get) or of the message bus (publish) is issued *)
(* when the coroutine reaches it and returns, or raises, in a later step;  *)
(* other coroutines run in between.                                        *)
(***************************************************************************)
EXTENDS Integers, Sequences, FiniteSets, TLC

\* ---------------------------------------------------------------- bounds

\* Coroutines of message-bus handlers that may be in flight or kept for
\* inspection at once.
MaxHandlers == 2

\* Frames the serial reader may have put on msgQ and not yet consumed.
MaxQueue == 2

\* The same, in the specification of the whole application.
MaxJoint == 1

\* Vehicle speeds the signal port may report: 0..MaxSpeed.
MaxSpeed == 1

\* The heartbeat counter _idx is followed up to this value.
MaxIdx == 3

\* ------------------------------------------------------ program constants

GET_SPEED_REQUEST_TOPIC == "sampleapp/getSpeed"
GET_SPEED_RESPONSE_TOPIC == "sampleapp/getSpeed/response"
DATABROKER_SUBSCRIPTION_TOPIC == "sampleapp/currentSpeed"
VOICE_CONTROL_REQUEST_TOPIC == "tw_mcu/sdvos_voice_ctrl"
VOICE_CONTROL_RESPONSE_TOPICE == "tw_mcu/sdvos_voice_ctrl/response"
BT_CMD_RESPONSE_TOPIC == "sampleapp/bt_cmd/reponse"
TASKS_TOPIC == "sampleapp/tasks"

SDVOS_SEAT_MOVE_FORWARD == 0
SDVOS_SEAT_MOVE_BACKWARD == 1
SDVOS_FAN_START == 2
SDVOS_FAN_STOP == 3
SDVOS_MIRRORREAR_PAN_LEFT == 4
SDVOS_MIRRORREAR_PAN_RIGHT == 5
SDVOS_MIRRORREAR_TITL_UP == 6
SDVOS_MIRRORREAR_TITL_DOWN == 7
SDVOS_LUMBAR_SUPPORT_01_INFLATION == 8
SDVOS_LUMBAR_SUPPORT_02_INFLATION == 8
SDVOS_LUMBAR_SUPPORT_DEFLATION == 9

VSS_SEAT_POSITION_BASE == 50
VSS_SEAT_POSITION_MAX == 60
VSS_SEAT_POSITION_MIN == 40
VSS_SEAT_POSITION_MOVE_STEP == 10

VSS_SEAT_BACKWARD == 240
VSS_SEAT_FORWARD == 241
VSS_SEAT_MOVE_STOP == 242

VSS_FAN_START == 45
VSS_FAN_STOP == 0

VSS_MIRROR_PAN_LEFT == 120
VSS_MIRROR_PAN_RIGHT == 121
VSS_MIRROR_TILT_UP == 122
VSS_MIRROR_TILT_DOWN == 123
VSS_MIRROR_MOVE_STOP == 118

VSS_LUMBAR_AIRCELL0 == 124
VSS_LUMBAR_AIRCELL1 == 125
VSS_LUMBAR_AIRCELL_STOP == 126
VSS_LUMBAR_AIRCELL_DEFLATION == 127

\* The vehicle signals the application writes.
SeatPosition == "Cabin.Seat.Row1.Pos1.Position"
MirrorPan == "Body.Mirrors.Left.Pan"
MirrorTilt == "Body.Mirrors.Left.Tilt"
LumbarSupport == "Cabin.Seat.Row1.Pos1.Backrest.Lumbar.Support"
FanSpeed == "Cabin.HVAC.Station.Row1.Left.FanSpeed"

\* ------------------------------------------------------------ JSON values

\* A decoded JSON value as Python holds it: t is its type, v its number (an
\* int, 1/0 for True/False, or the tenths of a float), s its characters (a
\* str).
JInt(n) == [t |-> "int", v |-> n, s |-> <<>>]
\* The float tenths / 10: JFloat(1005) is 100.5.
JFloat(tenths) == [t |-> "float", v |-> tenths, s |-> <<>>]
JBool(b) == [t |-> "bool", v |-> IF b THEN 1 ELSE 0, s |-> <<>>]
JStr(chars) == [t |-> "str", v |-> 0, s |-> chars]
JNull == [t |-> "null", v |-> 0, s |-> <<>>]
\* The key is not in the dict.
Absent == [t |-> "absent", v |-> 0, s |-> <<>>]

\* Python's x == n for an int literal n: True == 1, False == 0 and 1.0 == 1
\* hold.
PyEq(x, n) ==
    \/ x.t \in {"int", "bool"} /\ x.v = n
    \/ x.t = "float" /\ x.v = 10 * n

\* Python's truth value of x.
Truthy(x) ==
    CASE x.t \in {"int", "float"} -> x.v # 0
      [] x.t = "bool" -> x.v = 1
      [] x.t = "str" -> x.s # <<>>
      [] OTHER -> FALSE

Digits == <<"0", "1", "2", "3", "4", "5", "6", "7", "8", "9">>

DigitValue(c) == CHOOSE d \in 0..9 : Digits[d + 1] = c

IsDigit(c) == \E d \in 0..9 : Digits[d + 1] = c

RECURSIVE DigitsValue(_)
DigitsValue(chars) ==
    IF chars = <<>> THEN 0
    ELSE 10 * DigitsValue(SubSeq(chars, 1, Len(chars) - 1))
         + DigitValue(chars[Len(chars)])

\* The digits of a str that int() accepts, after its sign; <<>> when int()
\* raises ValueError.
Unsigned(chars) ==
    IF chars # <<>> /\ chars[1] \in {"-", "+"} THEN Tail(chars) ELSE chars

IntParses(chars) ==
    /\ Unsigned(chars) # <<>>
    /\ \A i \in 1..Len(Unsigned(chars)) : IsDigit(Unsigned(chars)[i])

\* Whether Python's int(x) returns: it raises TypeError on None and
\* ValueError on a str that is no number.
IntOk(x) ==
    CASE x.t \in {"int", "bool", "float"} -> TRUE
      [] x.t = "str" -> IntParses(x.s)
      [] OTHER -> FALSE

\* Python's int(x), where it returns: a float is truncated towards zero.
IntOf(x) ==
    CASE x.t = "str" ->
           IF x.s[1] = "-" THEN 0 - DigitsValue(Unsigned(x.s))
           ELSE DigitsValue(Unsigned(x.s))
      [] x.t = "float" ->
           IF x.v >= 0 THEN x.v \div 10 ELSE 0 - ((0 - x.v) \div 10)
      [] OTHER -> x.v

\* ------------------------------------------------------------------ state

VARIABLES
    seat_position_current,  \* the global tracker of the seat position
    handlers,               \* the coroutines of the message-bus handlers
    msgQ,                   \* the frames read from the serial device
    consumer,               \* the on_got_msg task
    timer,                  \* the on_timer task and its counter _idx
    gSer,                   \* the serial device: "Serial" when open, else "None"
    start,                  \* the on_start coroutine and what it has set up
    mirror                  \* what the signal port holds on the mirror axes

vars ==
    <<seat_position_current, handlers, msgQ, consumer, timer, gSer, start, mirror>>

Handlers == 1..MaxHandlers

Speeds == 0..MaxSpeed

\* A signal write as the port receives it, and a publish as the bus does.
Write(signal, value) == [signal |-> signal, value |-> value]

Publish(topic, payload) == [topic |-> topic, payload |-> payload]

\* The signal port's side of the mirror axes: on each axis the value of the
\* write applied last (<<>> while none was). The application never reads it
\* back; it is followed only in the specification that starts with
\* followed TRUE. A write is taken as applied when its awaited set returns:
\* writes of different coroutines are applied in any order, those of one
\* coroutine in the order it awaited them.
MirrorUnwritten == [followed |-> TRUE, Pan |-> <<>>, Tilt |-> <<>>]

MirrorNotFollowed == [followed |-> FALSE, Pan |-> <<>>, Tilt |-> <<>>]

Applied(m, write) ==
    IF ~m.followed THEN m
    ELSE IF write.signal = MirrorPan THEN [m EXCEPT !.Pan = <<write.value>>]
    ELSE IF write.signal = MirrorTilt THEN [m EXCEPT !.Tilt = <<write.value>>]
    ELSE m

\* A handler slot that holds no coroutine. failedAt is the await at which a
\* port call of the coroutine raised ("" while none has).
FreeHandler ==
    [kind |-> "free", pc |-> "free", json |-> "object", cmd |-> Absent,
     rule |-> 0, positon |-> 0, speed |-> 0,
     writes |-> <<>>, pubs |-> <<>>, fired |-> <<>>, failedAt |-> ""]

\* A coroutine has ended when it returned (done) or when an exception left
\* it (raised); it is in flight when it waits at an await.
Ended(hd) == hd.pc \in {"done", "raised"}

InFlight(hd) == hd.pc \notin {"free", "done", "raised"}

\* The slot a new coroutine takes: the first one with none in flight.
FirstIdle(h) ==
    /\ ~InFlight(handlers[h])
    /\ \A k \in Handlers : k < h => InFlight(handlers[k])

\* The slots with hd in slot h. The frame of a coroutine that ended stays in
\* its slot, to be looked at, until the next coroutine ends or takes the slot.
Put(h, hd) ==
    [k \in Handlers |->
        IF k = h THEN hd
        ELSE IF Ended(hd) /\ Ended(handlers[k]) THEN FreeHandler
        ELSE handlers[k]]

\* -------------------------------------------------- voice control handler

\* The payloads of tw_mcu/sdvos_voice_ctrl: text that is no JSON, JSON that
\* is no object, and an object with or without voice_cmd (a code, 10 being
\* a code of no rule).
VoicePayloads ==
    {[json |-> "malformed", voice_cmd |-> Absent],
     [json |-> "array", voice_cmd |-> Absent],
     [json |-> "object", voice_cmd |-> Absent]}
    \cup {[json |-> "object", voice_cmd |-> JInt(n)] : n \in 0..10}

\* The if statements of on_voice_control_request_received, in their order.
\* forward and backward move the tracker, single is one write, timed is a
\* write of target, asyncio.sleep(2) and a write of stop.
VoiceRules ==
    << [code |-> SDVOS_SEAT_MOVE_FORWARD, kind |-> "forward",
        signal |-> SeatPosition, target |-> 0, stop |-> 0],
       [code |-> SDVOS_SEAT_MOVE_BACKWARD, kind |-> "backward",
        signal |-> SeatPosition, target |-> 0, stop |-> 0],
       [code |-> SDVOS_FAN_START, kind |-> "single",
        signal |-> FanSpeed, target |-> VSS_FAN_START, stop |-> 0],
       [code |-> SDVOS_FAN_STOP, kind |-> "single",
        signal |-> FanSpeed, target |-> VSS_FAN_STOP, stop |-> 0],
       [code |-> SDVOS_MIRRORREAR_PAN_LEFT, kind |-> "timed",
        signal |-> MirrorPan, target |-> VSS_MIRROR_PAN_LEFT,
        stop |-> VSS_MIRROR_MOVE_STOP],
       [code |-> SDVOS_MIRRORREAR_PAN_RIGHT, kind |-> "timed",
        signal |-> MirrorPan, target |-> VSS_MIRROR_PAN_RIGHT,
        stop |-> VSS_MIRROR_MOVE_STOP],
       [code |-> SDVOS_MIRRORREAR_TITL_UP, kind |-> "timed",
        signal |-> MirrorTilt, target |-> VSS_MIRROR_TILT_UP,
        stop |-> VSS_MIRROR_MOVE_STOP],
       [code |-> SDVOS_MIRRORREAR_TITL_DOWN, kind |-> "timed",
        signal |-> MirrorTilt, target |-> VSS_MIRROR_TILT_DOWN,
        stop |-> VSS_MIRROR_MOVE_STOP],
       [code |-> SDVOS_LUMBAR_SUPPORT_01_INFLATION, kind |-> "timed",
        signal |-> LumbarSupport, target |-> VSS_LUMBAR_AIRCELL0,
        stop |-> VSS_LUMBAR_AIRCELL_STOP],
       [code |-> SDVOS_LUMBAR_SUPPORT_02_INFLATION, kind |-> "timed",
        signal |-> LumbarSupport, target |-> VSS_LUMBAR_AIRCELL1,
        stop |-> VSS_LUMBAR_AIRCELL_STOP],
       [code |-> SDVOS_LUMBAR_SUPPORT_DEFLATION, kind |-> "timed",
        signal |-> LumbarSupport, target |-> VSS_LUMBAR_AIRCELL_DEFLATION,
        stop |-> VSS_LUMBAR_AIRCELL_STOP] >>

\* The messages of the two rejections (adjacent string literals: no space
\* between "will" and "be").
MSG_MAX == "The Seat Position willbe bigger than max value(60)."
MSG_MIN == "The Seat Position willbe litter than min value(40)."

\* NextRule testing the if statement of rule `from` once more: the rule that
\* just ran is run again.
NextRuleSame(cmd, from) ==
    LET later == {i \in from..Len(VoiceRules) : i > 0 /\ PyEq(cmd, VoiceRules[i].code)}
    IN  IF later = {} THEN 0
        ELSE CHOOSE i \in later : \A j \in later : i <= j

\* The first if statement after rule `from` whose code equals voice_cmd; 0
\* when there is none. The statements are separate ifs, not an elif chain:
\* every one is tested, whatever ran before.
NextRule(cmd, from) ==
    LET later == {i \in (from + 1)..Len(VoiceRules) : PyEq(cmd, VoiceRules[i].code)}
    IN  IF later = {} THEN 0
        ELSE CHOOSE i \in later : \A j \in later : i <= j

\* The publish of send_mqtt_response.
send_mqtt_response(msg) ==
    Publish(VOICE_CONTROL_RESPONSE_TOPICE,
            [result |-> [status |-> 1, message |-> msg]])

\* The bound checks with > for >= and < for <=: a command at the bound
\* itself would pass.
AtCeilingStrict(pos) == pos > VSS_SEAT_POSITION_MAX

AtFloorStrict(pos) == pos < VSS_SEAT_POSITION_MIN

\* The bound checks of lines 341 and 351: TRUE when the command is rejected.
AtCeiling(pos) == pos >= VSS_SEAT_POSITION_MAX

AtFloor(pos) == pos <= VSS_SEAT_POSITION_MIN

\* The coroutine hd run from the if statement of rule i (0: past the last
\* one) to its next await, with the tracker at pos.
EnterRule(hd, i, pos) ==
    IF i = 0 THEN [hd EXCEPT !.pc = "done", !.rule = 0]
    ELSE
    LET r == VoiceRules[i]
        at == [hd EXCEPT !.rule = i, !.fired = Append(@, i)]
    IN  CASE r.kind = "forward" ->
               LET positon == pos + VSS_SEAT_POSITION_MOVE_STEP
               IN  IF AtCeiling(pos)
                   THEN [at EXCEPT !.pc = "pub", !.positon = positon,
                            !.pubs = Append(@, send_mqtt_response(MSG_MAX))]
                   ELSE [at EXCEPT !.pc = "set", !.positon = positon,
                            !.writes = Append(@, Write(SeatPosition, positon))]
          [] r.kind = "backward" ->
               LET positon == pos - VSS_SEAT_POSITION_MOVE_STEP
               IN  IF AtFloor(pos)
                   THEN [at EXCEPT !.pc = "pub", !.positon = positon,
                            !.pubs = Append(@, send_mqtt_response(MSG_MIN))]
                   ELSE [at EXCEPT !.pc = "set", !.positon = positon,
                            !.writes = Append(@, Write(SeatPosition, positon))]
          [] OTHER ->
               [at EXCEPT !.pc = "set",
                          !.writes = Append(@, Write(r.signal, r.target))]

\* The coroutine of a voice message run to its first await. json.loads (line
\* 335) and .get (line 336) stand in no try: text that is no JSON, or JSON
\* that is no object, raises out of the handler.
VoiceStart(data, pos) ==
    LET hd == [FreeHandler EXCEPT !.kind = "voice", !.json = data.json,
                                  !.cmd = data.voice_cmd]
    IN  IF data.json # "object" THEN [hd EXCEPT !.pc = "raised"]
        ELSE EnterRule(hd, NextRule(hd.cmd, 0), pos)

\* TrackerAfter with the assignment made after the write of any rule.
TrackerAfterAnyRule(hd, pos) ==
    IF hd.pc = "set" THEN hd.positon ELSE pos

\* TrackerAfter without the assignments of lines 346 and 356.
TrackerAfterKept(hd, pos) == pos

\* The tracker after the awaited call of hd returned: after the seat write
\* of an accepted forward or backward command it takes positon, the value
\* computed before the await (lines 346 and 356).
TrackerAfter(hd, pos) ==
    IF hd.pc = "set" /\ VoiceRules[hd.rule].kind \in {"forward", "backward"}
    THEN hd.positon
    ELSE pos

\* VoiceContinue with a timed rule left after its first write: neither the
\* sleep nor the stop write follows.
VoiceContinueNoStop(hd, pos) ==
    EnterRule(hd, NextRule(hd.cmd, hd.rule), pos)

\* The coroutine hd run on from the return of its awaited call to its next
\* await: a timed rule goes on to asyncio.sleep(2), any other rule is over
\* and the if statements after it are tested.
VoiceContinue(hd, pos) ==
    IF hd.pc = "set" /\ VoiceRules[hd.rule].kind = "timed"
    THEN [hd EXCEPT !.pc = "sleep"]
    ELSE EnterRule(hd, NextRule(hd.cmd, hd.rule), pos)

\* VoiceStop writing the target of the rule once more, not its stop value.
VoiceStopTarget(hd) ==
    [hd EXCEPT !.pc = "stop",
               !.writes = Append(@, Write(VoiceRules[hd.rule].signal,
                                          VoiceRules[hd.rule].target))]

\* The stop write of a timed rule, issued when asyncio.sleep(2) returns.
VoiceStop(hd) ==
    [hd EXCEPT !.pc = "stop",
               !.writes = Append(@, Write(VoiceRules[hd.rule].signal,
                                          VoiceRules[hd.rule].stop))]

\* A message arrives on tw_mcu/sdvos_voice_ctrl.
on_voice_control_request_received(h, data) ==
    /\ FirstIdle(h)
    /\ handlers' = Put(h, VoiceStart(data, seat_position_current))
    /\ UNCHANGED <<seat_position_current, msgQ, consumer, timer, gSer, start, mirror>>

\* The set or publish a voice handler awaits returns.
VoiceResume(h) ==
    LET hd == handlers[h]
        pos == TrackerAfter(hd, seat_position_current)
    IN  /\ hd.kind = "voice"
        /\ hd.pc \in {"pub", "set", "stop"}
        /\ seat_position_current' = pos
        /\ handlers' = Put(h, VoiceContinue(hd, pos))
        /\ mirror' = IF hd.pc \in {"set", "stop"}
                     THEN Applied(mirror, hd.writes[Len(hd.writes)])
                     ELSE mirror
        /\ UNCHANGED <<msgQ, consumer, timer, gSer, start>>

\* asyncio.sleep(2) of a timed rule returns.
VoiceSleepDone(h) ==
    /\ handlers[h].kind = "voice"
    /\ handlers[h].pc = "sleep"
    /\ handlers' = Put(h, VoiceStop(handlers[h]))
    /\ UNCHANGED <<seat_position_current, msgQ, consumer, timer, gSer, start, mirror>>

\* HandlerRaise with the tracker assigned before the write is awaited: it
\* has moved when the write raises.
HandlerRaiseAdvanced(h) ==
    /\ handlers[h].pc \in {"pub", "set", "stop", "get"}
    /\ handlers' = Put(h, [handlers[h] EXCEPT !.pc = "raised",
                                              !.failedAt = handlers[h].pc])
    /\ seat_position_current' = TrackerAfter(handlers[h], seat_position_current)
    /\ UNCHANGED <<msgQ, consumer, timer, gSer, start, mirror>>

\* HandlerRaise with the exception of a voice handler caught and passed
\* over: the coroutine goes on as if the call had returned.
HandlerRaiseCaught(h) ==
    /\ handlers[h].pc \in {"pub", "set", "stop", "get"}
    /\ handlers' = Put(h,
          IF handlers[h].kind = "voice"
          THEN [VoiceContinue(handlers[h], seat_position_current)
                   EXCEPT !.failedAt = handlers[h].pc]
          ELSE [handlers[h] EXCEPT !.pc = "raised", !.failedAt = handlers[h].pc])
    /\ UNCHANGED <<seat_position_current, msgQ, consumer, timer, gSer, start, mirror>>

\* The set, get or publish a handler awaits raises (a port failure). No
\* handler has a try: the exception leaves the coroutine.
HandlerRaise(h) ==
    /\ handlers[h].pc \in {"pub", "set", "stop", "get"}
    /\ handlers' = Put(h, [handlers[h] EXCEPT !.pc = "raised",
                                              !.failedAt = handlers[h].pc])
    /\ UNCHANGED <<seat_position_current, msgQ, consumer, timer, gSer, start, mirror>>

\* ------------------------------------------------- speed query and relay

\* SpeedResponse with the speed left out of the message.
SpeedResponseBare(vehicle_speed) ==
    [result |-> [status |-> 0, message |-> "Current Speed = "]]

\* The payload of the answer to a speed query (lines 304 to 311).
SpeedResponse(vehicle_speed) ==
    [result |-> [status |-> 0,
                 message |-> "Current Speed = " \o ToString(vehicle_speed)]]

\* A message arrives on sampleapp/getSpeed: the handler awaits Speed.get().
on_get_speed_request_received(h) ==
    /\ FirstIdle(h)
    /\ handlers' = Put(h, [FreeHandler EXCEPT !.kind = "getSpeed", !.pc = "get"])
    /\ UNCHANGED <<seat_position_current, msgQ, consumer, timer, gSer, start, mirror>>

\* Speed.get() returns vehicle_speed and the answer is published.
GetSpeedReturn(h, vehicle_speed) ==
    /\ handlers[h].pc = "get"
    /\ handlers' = Put(h, [handlers[h] EXCEPT
           !.pc = "pub", !.speed = vehicle_speed,
           !.pubs = Append(@, Publish(GET_SPEED_RESPONSE_TOPIC,
                                      SpeedResponse(vehicle_speed)))])
    /\ UNCHANGED <<seat_position_current, msgQ, consumer, timer, gSer, start, mirror>>

\* The data broker reports a change of Vehicle.Speed: the value is published.
on_speed_change(h, vehicle_speed) ==
    /\ FirstIdle(h)
    /\ handlers' = Put(h, [FreeHandler EXCEPT
           !.kind = "speedChange", !.pc = "pub", !.speed = vehicle_speed,
           !.pubs = <<Publish(DATABROKER_SUBSCRIPTION_TOPIC,
                              [speed |-> vehicle_speed])>>])
    /\ UNCHANGED <<seat_position_current, msgQ, consumer, timer, gSer, start, mirror>>

\* The publish of a speed handler returns and the handler is over.
SpeedPublished(h) ==
    /\ handlers[h].kind \in {"getSpeed", "speedChange"}
    /\ handlers[h].pc = "pub"
    /\ handlers' = Put(h, [handlers[h] EXCEPT !.pc = "done"])
    /\ UNCHANGED <<seat_position_current, msgQ, consumer, timer, gSer, start, mirror>>

\* ------------------------------------------------ auxiliary serial frames

\* The values a frame may give each key that on_got_msg reads (stat_f is the
\* key 'stat-f' of line 172), and Absent: the frame has no such key.
SeatPosValues ==
    {JInt(0 - 1), JInt(0), JInt(1), JInt(100), JInt(101),
     JFloat(5), JFloat(1005),
     JStr(<<"5", "0">>), JStr(<<"x">>), Absent}

SeatCaliValues == {JInt(0), JInt(1), JInt(2), Absent}

StatusValues == {JBool(TRUE), JBool(FALSE), Absent}

StatFValues == {JBool(FALSE), Absent}

MirrorCaliValues == {JInt(0), JInt(1), JInt(2), JInt(3), Absent}

AircellValues == {JInt(0), JInt(1), JInt(2), JInt(3), Absent}

FanValues == {JInt(0), JInt(30), JInt(0 - 1), JStr(<<"x">>), Absent}

NoKeys ==
    [seatPos |-> Absent, seatCali |-> Absent, status |-> Absent,
     stat_f |-> Absent, mirrorCali |-> Absent, aircell |-> Absent,
     fan |-> Absent]

\* A frame: the bytes between two newlines, as json.loads takes them: no
\* JSON (malformed), JSON that is no object (array), or an object.
MalformedFrame == [json |-> "malformed", dict |-> NoKeys]

ArrayFrame == [json |-> "array", dict |-> NoKeys]

ObjectFrame(dict) == [json |-> "object", dict |-> dict]

Frames ==
    {MalformedFrame, ArrayFrame}
    \cup {ObjectFrame(d) : d \in
            [seatPos : SeatPosValues, seatCali : SeatCaliValues,
             status : StatusValues, stat_f : StatFValues,
             mirrorCali : MirrorCaliValues, aircell : AircellValues,
             fan : FanValues]}

\* The frames of the specification of the whole application: one of each
\* way a frame may write the seat position, a fan frame and one that is no
\* JSON.
SeatFrames ==
    {MalformedFrame,
     ObjectFrame([NoKeys EXCEPT !.seatPos = JInt(100)]),
     ObjectFrame([NoKeys EXCEPT !.seatCali = JInt(1), !.status = JBool(TRUE)])}

\* app_dit[key] returns when app_dit is a dict that has the key; it raises
\* KeyError when the dict has no such key and TypeError when app_dit is no
\* dict.
Has(app, key) == app.json = "object" /\ app.dict[key] # Absent

LookupError(app) == IF app.json = "object" THEN "KeyError" ELSE "TypeError"

\* What a try block of on_got_msg does: the write it awaits, if any (write),
\* the exception raised before any write (error) and the exception raised
\* when the write has returned (after). Every one is caught by the bare
\* except of the block.
Issue(signal, value) ==
    [write |-> <<Write(signal, value)>>, error |-> "", after |-> ""]

Raises(error) == [write |-> <<>>, error |-> error, after |-> ""]

Passes == [write |-> <<>>, error |-> "", after |-> ""]

\* Lines 148 to 157.
SeatPosBlock(app) ==
    IF ~Has(app, "seatPos") THEN Raises(LookupError(app))
    ELSE IF ~IntOk(app.dict.seatPos)
    THEN Raises(IF app.dict.seatPos.t = "str" THEN "ValueError" ELSE "TypeError")
    ELSE
    LET t_seat_pos == IntOf(app.dict.seatPos)
    IN  IF t_seat_pos > 0 /\ t_seat_pos <= 100
        THEN Issue(SeatPosition, t_seat_pos)
        ELSE Passes

\* Lines 160 to 179. The set of line 167 is not awaited: its coroutine never
\* runs and writes nothing. Line 171 awaits an attribute the seat row does
\* not have. Line 172 reads the key 'stat-f', not 'status'.
SeatCaliBlock(app) ==
    IF ~Has(app, "seatCali") THEN Raises(LookupError(app))
    ELSE IF PyEq(app.dict.seatCali, 1)
    THEN IF ~Has(app, "status") THEN Raises("KeyError")
         ELSE IF Truthy(app.dict.status)
         THEN Issue(SeatPosition, VSS_SEAT_BACKWARD)
         ELSE Issue(SeatPosition, VSS_SEAT_MOVE_STOP)
    ELSE IF PyEq(app.dict.seatCali, 0)
    THEN IF ~Has(app, "status") THEN Raises("KeyError")
         ELSE IF Truthy(app.dict.status)
         THEN [Issue(SeatPosition, VSS_SEAT_FORWARD) EXCEPT !.after = "AttributeError"]
         ELSE IF ~Has(app, "stat_f") THEN Raises("KeyError")
         ELSE IF ~Truthy(app.dict.stat_f)
         THEN Issue(SeatPosition, VSS_SEAT_MOVE_STOP)
         ELSE Passes
    ELSE Passes

\* Lines 182 to 211: mirrorCali 0 and 2 pan left and right, 1 and 3 tilt up
\* and down; a false status stops the axis.
MirrorCaliBlock(app) ==
    IF ~Has(app, "mirrorCali") THEN Raises(LookupError(app))
    ELSE
    LET c == app.dict.mirrorCali
        move(signal, value) ==
            IF ~Has(app, "status") THEN Raises("KeyError")
            ELSE IF Truthy(app.dict.status) THEN Issue(signal, value)
            ELSE Issue(signal, VSS_MIRROR_MOVE_STOP)
    IN  CASE PyEq(c, 0) -> move(MirrorPan, VSS_MIRROR_PAN_LEFT)
          [] PyEq(c, 2) -> move(MirrorPan, VSS_MIRROR_PAN_RIGHT)
          [] PyEq(c, 1) -> move(MirrorTilt, VSS_MIRROR_TILT_UP)
          [] PyEq(c, 3) -> move(MirrorTilt, VSS_MIRROR_TILT_DOWN)
          [] OTHER -> Passes

\* Lines 214 to 229.
AircellBlock(app) ==
    IF ~Has(app, "aircell") THEN Raises(LookupError(app))
    ELSE
    LET c == app.dict.aircell
    IN  CASE PyEq(c, 0) -> Issue(LumbarSupport, VSS_LUMBAR_AIRCELL0)
          [] PyEq(c, 1) -> Issue(LumbarSupport, VSS_LUMBAR_AIRCELL1)
          [] PyEq(c, 2) -> Issue(LumbarSupport, VSS_LUMBAR_AIRCELL_STOP)
          [] PyEq(c, 3) -> Issue(LumbarSupport, VSS_LUMBAR_AIRCELL_DEFLATION)
          [] OTHER -> Passes

\* FanBlock with the two branches of line 233 exchanged.
FanBlockSwapped(app) ==
    IF ~Has(app, "fan") THEN Raises(LookupError(app))
    ELSE IF ~IntOk(app.dict.fan)
    THEN Raises(IF app.dict.fan.t = "str" THEN "ValueError" ELSE "TypeError")
    ELSE IF IntOf(app.dict.fan) >= 0
    THEN Issue(FanSpeed, 0)
    ELSE Issue(FanSpeed, IntOf(app.dict.fan))

\* Lines 232 to 240.
FanBlock(app) ==
    IF ~Has(app, "fan") THEN Raises(LookupError(app))
    ELSE IF ~IntOk(app.dict.fan)
    THEN Raises(IF app.dict.fan.t = "str" THEN "ValueError" ELSE "TypeError")
    ELSE IF IntOf(app.dict.fan) >= 0
    THEN Issue(FanSpeed, IntOf(app.dict.fan))
    ELSE Issue(FanSpeed, 0)

\* The try blocks of on_got_msg in their order.
Blocks == <<"seatPos", "seatCali", "mirrorCali", "aircell", "fan">>

BlockEval(block, app) ==
    CASE block = "seatPos" -> SeatPosBlock(app)
      [] block = "seatCali" -> SeatCaliBlock(app)
      [] block = "mirrorCali" -> MirrorCaliBlock(app)
      [] block = "aircell" -> AircellBlock(app)
      [] block = "fan" -> FanBlock(app)

\* ------------------------------------------------------ on_got_msg task

\* No frame taken yet.
NoFrame == [json |-> "none", dict |-> NoKeys]

\* The task with no frame in hand. pc is poll while the task waits in
\* asyncio.sleep(0.1) or has not run yet, set and publish while it awaits a
\* write or the publish of line 242, dead when an exception has left it.
\* app is the frame in hand, log what each try block did with it, failed
\* whether a write of the frame raised.
IdleConsumer ==
    [pc |-> "poll", app |-> NoFrame, block |-> 0, log |-> <<>>,
     pubs |-> <<>>, failed |-> FALSE]

\* The publish of line 242; the decoded frame stands for its str().
BtResponse(app) == Publish(BT_CMD_RESPONSE_TOPIC, [bt_cmd |-> app])

\* RunBlocks with one try around all the blocks: the first exception raised
\* before a write ends the blocks and the publish follows.
RECURSIVE RunBlocksOneTry(_, _)
RunBlocksOneTry(con, b) ==
    IF b > Len(Blocks)
    THEN [con EXCEPT !.pc = "publish", !.block = 0,
                     !.pubs = Append(@, BtResponse(con.app))]
    ELSE
    LET r == BlockEval(Blocks[b], con.app)
        at == [con EXCEPT !.log = Append(@, [block |-> Blocks[b],
                                             write |-> r.write,
                                             error |-> r.error])]
    IN  IF r.write # <<>> THEN [at EXCEPT !.pc = "set", !.block = b]
        ELSE IF r.error # "" THEN RunBlocksOneTry(at, Len(Blocks) + 1)
        ELSE RunBlocksOneTry(at, b + 1)

\* The task run from try block b to its next await: a block that awaits no
\* write, or raises before it, is followed at once by the next one, and the
\* last one by the publish.
RECURSIVE RunBlocks(_, _)
RunBlocks(con, b) ==
    IF b > Len(Blocks)
    THEN [con EXCEPT !.pc = "publish", !.block = 0,
                     !.pubs = Append(@, BtResponse(con.app))]
    ELSE
    LET r == BlockEval(Blocks[b], con.app)
        at == [con EXCEPT !.log = Append(@, [block |-> Blocks[b],
                                             write |-> r.write,
                                             error |-> r.error])]
    IN  IF r.write # <<>> THEN [at EXCEPT !.pc = "set", !.block = b]
        ELSE RunBlocks(at, b + 1)

\* TakeFrames taking the frame that was put last, not the one put first.
RECURSIVE TakeFramesNewest(_, _)
TakeFramesNewest(con, q) ==
    IF q = <<>> THEN [con |-> IdleConsumer, q |-> q]
    ELSE IF q[Len(q)].json = "malformed"
    THEN TakeFramesNewest(con, SubSeq(q, 1, Len(q) - 1))
    ELSE [con |-> RunBlocks([IdleConsumer EXCEPT !.app = q[Len(q)]], 1),
          q |-> SubSeq(q, 1, Len(q) - 1)]

\* The loop of lines 137 to 243 run from its top with the frames q waiting:
\* a frame that is no JSON is dropped by the continue of line 146 and the
\* next one is taken at once; with no frame left the task sleeps.
RECURSIVE TakeFrames(_, _)
TakeFrames(con, q) ==
    IF q = <<>> THEN [con |-> IdleConsumer, q |-> q]
    ELSE IF Head(q).json = "malformed" THEN TakeFrames(con, Tail(q))
    ELSE [con |-> RunBlocks([IdleConsumer EXCEPT !.app = Head(q)], 1),
          q |-> Tail(q)]

\* The writes the task issued for the frame it took last.
Writes(log) ==
    [i \in 1..Len(SelectSeq(log, LAMBDA e : e.write # <<>>)) |->
        SelectSeq(log, LAMBDA e : e.write # <<>>)[i].write[1]]

\* The entry of the awaited write with the exception that followed it.
Caught(log, error) ==
    IF error = "" THEN log
    ELSE [log EXCEPT ![Len(log)] = [@ EXCEPT !.error = error]]

\* asyncio.sleep(0.1) returns with frames waiting.
ConsumerPoll ==
    /\ start.tasks
    /\ consumer.pc = "poll"
    /\ msgQ # <<>>
    /\ consumer' = TakeFrames(consumer, msgQ).con
    /\ msgQ' = TakeFrames(consumer, msgQ).q
    /\ UNCHANGED <<seat_position_current, handlers, timer, gSer, start, mirror>>

\* The write the task awaits returns; what the block raises afterwards is
\* caught and the next block runs.
ConsumerSetReturn ==
    /\ consumer.pc = "set"
    /\ LET r == BlockEval(Blocks[consumer.block], consumer.app)
       IN  consumer' = RunBlocks([consumer EXCEPT !.log = Caught(@, r.after)],
                                 consumer.block + 1)
    /\ mirror' = Applied(mirror, consumer.log[Len(consumer.log)].write[1])
    /\ UNCHANGED <<seat_position_current, handlers, msgQ, timer, gSer, start>>

\* The write the task awaits raises (a port failure): the except of the
\* block catches it and the next block runs.
ConsumerSetRaise ==
    /\ consumer.pc = "set"
    /\ consumer' = RunBlocks([consumer EXCEPT !.failed = TRUE],
                             consumer.block + 1)
    /\ UNCHANGED <<seat_position_current, handlers, msgQ, timer, gSer, start, mirror>>

\* The publish of line 242 returns and the task sleeps.
ConsumerPublished ==
    /\ consumer.pc = "publish"
    /\ consumer' = IdleConsumer
    /\ UNCHANGED <<seat_position_current, handlers, msgQ, timer, gSer, start, mirror>>

\* The publish of line 242 raises: it stands in no try, the exception leaves
\* on_got_msg and the task is over.
ConsumerPublishRaise ==
    /\ consumer.pc = "publish"
    /\ consumer' = [IdleConsumer EXCEPT !.pc = "dead"]
    /\ UNCHANGED <<seat_position_current, handlers, msgQ, timer, gSer, start, mirror>>

\* The frames read and not yet dealt with: those on the queue and the one
\* the task has in hand.
Outstanding == Len(msgQ) + (IF consumer.pc \in {"set", "publish"} THEN 1 ELSE 0)

\* The serial device is readable: on_recv_bt_data reads up to the newline and
\* puts the frame on the queue.
on_recv_bt_data(recv_bt_dat) ==
    /\ start.reader
    /\ Outstanding < MaxQueue
    /\ msgQ' = Append(msgQ, recv_bt_dat)
    /\ UNCHANGED <<seat_position_current, handlers, consumer, timer, gSer, start, mirror>>

\* -------------------------------------------------------- on_timer task

\* The publish of line 249.
TaskMessage(idx) == Publish(TASKS_TOPIC, [period_tasks |-> idx])

\* The publish of on_timer returns: _idx is incremented and the task sleeps.
TimerPublished ==
    /\ start.tasks
    /\ timer.pc = "publish"
    /\ timer.idx < MaxIdx
    /\ timer' = [timer EXCEPT !.pc = "sleep", !.idx = @ + 1]
    /\ UNCHANGED <<seat_position_current, handlers, msgQ, consumer, gSer, start, mirror>>

\* The publish of on_timer raises: it stands in no try and the task is over.
TimerPublishRaise ==
    /\ start.tasks
    /\ timer.pc = "publish"
    /\ timer' = [timer EXCEPT !.pc = "dead"]
    /\ UNCHANGED <<seat_position_current, handlers, msgQ, consumer, gSer, start, mirror>>

\* asyncio.sleep(2.0) returns and the next message is published.
TimerWake ==
    /\ start.tasks
    /\ timer.pc = "sleep"
    /\ timer' = [timer EXCEPT !.pc = "publish"]
    /\ UNCHANGED <<seat_position_current, handlers, msgQ, consumer, gSer, start, mirror>>

\* ------------------------------------------------------------- on_start

\* on_start when it has run to its end: the tasks created, the reader added.
Started == [pc |-> "done", tasks |-> TRUE, reader |-> TRUE]

\* on_start at its first await, Vehicle.Speed.subscribe (line 127).
Starting == [pc |-> "subscribe", tasks |-> FALSE, reader |-> FALSE]

\* LOOP.add_reader(gSer, ...) of line 131: with gSer None the event loop
\* raises ValueError (None is no file object) and adds no reader.
AddReader(st) ==
    IF gSer = "None" THEN [st EXCEPT !.pc = "raised"]
    ELSE [st EXCEPT !.pc = "done", !.reader = TRUE]

\* The subscribe of line 127 returns: on_start creates the two tasks and adds
\* the reader of the serial device.
on_start ==
    /\ start.pc = "subscribe"
    /\ start' = AddReader([start EXCEPT !.tasks = TRUE])
    /\ UNCHANGED <<seat_position_current, handlers, msgQ, consumer, timer, gSer, mirror>>

\* The subscribe of line 127 raises: on_start has no try.
OnStartRaise ==
    /\ start.pc = "subscribe"
    /\ start' = [start EXCEPT !.pc = "raised"]
    /\ UNCHANGED <<seat_position_current, handlers, msgQ, consumer, timer, gSer, mirror>>

\* ---------------------------------------------------------- specification

\* The state when on_start has created the two tasks: the tracker at its
\* base value, no handler running, no frame read, on_timer at its first
\* publish.
Init ==
    /\ seat_position_current = VSS_SEAT_POSITION_BASE
    /\ handlers = [h \in Handlers |-> FreeHandler]
    /\ msgQ = <<>>
    /\ consumer = IdleConsumer
    /\ timer = [pc |-> "publish", idx |-> 0]
    /\ gSer = "Serial"
    /\ start = Started
    /\ mirror = MirrorNotFollowed

\* The steps of the message-bus handlers.
BusNext ==
    \/ \E h \in Handlers, data \in VoicePayloads :
           on_voice_control_request_received(h, data)
    \/ \E h \in Handlers : VoiceResume(h)
    \/ \E h \in Handlers : VoiceSleepDone(h)
    \/ \E h \in Handlers : HandlerRaise(h)
    \/ \E h \in Handlers : on_get_speed_request_received(h)
    \/ \E h \in Handlers, v \in Speeds : GetSpeedReturn(h, v)
    \/ \E h \in Handlers, v \in Speeds : on_speed_change(h, v)
    \/ \E h \in Handlers : SpeedPublished(h)

\* The steps of the on_got_msg task.
ConsumerNext ==
    \/ ConsumerPoll
    \/ ConsumerSetReturn
    \/ ConsumerSetRaise
    \/ ConsumerPublished
    \/ ConsumerPublishRaise

\* The steps of the on_timer task.
TimerNext ==
    \/ TimerPublished
    \/ TimerPublishRaise
    \/ TimerWake

\* The whole application: the handlers of the message bus together with the
\* serial reader and the on_got_msg task.
Next ==
    \/ BusNext
    \/ \E frame \in SeatFrames : Outstanding < MaxJoint /\ on_recv_bt_data(frame)
    \/ ConsumerNext

Spec == Init /\ [][Next]_vars

\* The message-bus handlers alone.
SpecBus == Init /\ [][BusNext]_vars

\* The on_got_msg task on one frame, any of Frames, that the reader has put
\* on the queue.
InitFrame ==
    /\ seat_position_current = VSS_SEAT_POSITION_BASE
    /\ handlers = [h \in Handlers |-> FreeHandler]
    /\ msgQ \in {<<frame>> : frame \in Frames}
    /\ consumer = IdleConsumer
    /\ timer = [pc |-> "publish", idx |-> 0]
    /\ gSer = "Serial"
    /\ start = Started
    /\ mirror = MirrorNotFollowed

SpecFrame == InitFrame /\ [][ConsumerNext]_vars

\* The two tasks and the serial reader.
TasksNext ==
    \/ \E frame \in SeatFrames : on_recv_bt_data(frame)
    \/ ConsumerNext
    \/ TimerNext

SpecTasks == Init /\ [][TasksNext]_vars

\* The two tasks and the serial reader when no call of the signal port or of
\* the message bus raises. The event loop resumes a task whose sleep is over
\* or whose awaited call has returned: each such step is taken if it stays
\* possible.
NoFailureNext ==
    \/ \E frame \in SeatFrames : on_recv_bt_data(frame)
    \/ ConsumerPoll
    \/ ConsumerSetReturn
    \/ ConsumerPublished
    \/ TimerPublished
    \/ TimerWake

SpecNoFailure ==
    /\ Init
    /\ [][NoFailureNext]_vars
    /\ WF_vars(ConsumerPoll)
    /\ WF_vars(ConsumerSetReturn)
    /\ WF_vars(ConsumerPublished)
    /\ WF_vars(TimerPublished)
    /\ WF_vars(TimerWake)

\* The mirror commands of the voice channel with no port failure, and the
\* mirror axes of the signal port followed.
MirrorPayloads ==
    {[json |-> "object", voice_cmd |-> JInt(n)] :
        n \in {SDVOS_MIRRORREAR_PAN_LEFT, SDVOS_MIRRORREAR_PAN_RIGHT,
               SDVOS_MIRRORREAR_TITL_UP, SDVOS_MIRRORREAR_TITL_DOWN}}

InitMirror ==
    /\ seat_position_current = VSS_SEAT_POSITION_BASE
    /\ handlers = [h \in Handlers |-> FreeHandler]
    /\ msgQ = <<>>
    /\ consumer = IdleConsumer
    /\ timer = [pc |-> "publish", idx |-> 0]
    /\ gSer = "Serial"
    /\ start = Started
    /\ mirror = MirrorUnwritten

MirrorNext ==
    \/ \E h \in Handlers, data \in MirrorPayloads :
           on_voice_control_request_received(h, data)
    \/ \E h \in Handlers : VoiceResume(h)
    \/ \E h \in Handlers : VoiceSleepDone(h)

SpecMirror == InitMirror /\ [][MirrorNext]_vars

\* The application from the call of on_start, the serial device open or not
\* (lines 90 to 98): on_start, then the tasks and the reader it set up.
InitStart ==
    /\ seat_position_current = VSS_SEAT_POSITION_BASE
    /\ handlers = [h \in Handlers |-> FreeHandler]
    /\ msgQ = <<>>
    /\ consumer = IdleConsumer
    /\ timer = [pc |-> "publish", idx |-> 0]
    /\ gSer \in {"Serial", "None"}
    /\ start = Starting
    /\ mirror = MirrorNotFollowed

StartNext ==
    \/ on_start
    \/ OnStartRaise
    \/ TasksNext

SpecStart == InitStart /\ [][StartNext]_vars

\* ================================================================ claims

\* The handler in slot h took a step: its coroutine started, went on to its
\* next await or ended. (A slot emptied because another coroutine ended is
\* no step of its own.)
StepOf(h) == handlers'[h] # handlers[h] /\ handlers'[h].kind # "free"

\* The coroutines of voice commands with code n.
IsVoice(hd, n) == hd.kind = "voice" /\ hd.json = "object" /\ PyEq(hd.cmd, n)

\* The one rejection a voice handler may have published.
Rejection(msg) ==
    <<[topic |-> "tw_mcu/sdvos_voice_ctrl/response",
       payload |-> [result |-> [status |-> 1, message |-> msg]]]>>

\* ------------------------------------------------------------------- C1
\* C1: in every reachable state, whatever voice handlers and auxiliary
\* frames have run and however they interleaved, seat_position_current is
\* within [40, 60]; it starts at 50.
C1_TrackerInRange ==
    /\ seat_position_current >= 40
    /\ seat_position_current <= 60

\* The tracker at the ceiling after an accepted seat-forward command, with a
\* second seat-forward handler still awaiting its write and the on_got_msg
\* task awaiting a seat-position write of a frame.
C1_Witness ==
    /\ seat_position_current = 60
    /\ \E h, k \in Handlers :
          /\ IsVoice(handlers[h], 0) /\ handlers[h].pc = "done"
          /\ handlers[h].writes # <<>>
          /\ IsVoice(handlers[k], 0) /\ handlers[k].pc = "set"
    /\ consumer.pc = "set"
    /\ consumer.log[Len(consumer.log)].write[1].signal = SeatPosition

\* ------------------------------------------------------------------- C2
\* The tracker value a seat handler read when it arrived: positon (line 340
\* or 350) is that value plus or minus the step.
ArrivedForward(hd) == hd.positon - 10

ArrivedBackward(hd) == hd.positon + 10

\* What holds of every seat-forward handler, in flight or ended: it is
\* rejected if and only if it arrived with the tracker at 60 or above; a
\* rejected one issued no write and exactly one rejection on the response
\* topic; an accepted one issued exactly the write of tracker + 10 to the
\* seat position and published nothing.
C2_Outcome ==
    \A h \in Handlers :
        IsVoice(handlers[h], 0) =>
            IF ArrivedForward(handlers[h]) >= 60
            THEN /\ handlers[h].writes = <<>>
                 /\ handlers[h].pubs =
                        Rejection("The Seat Position willbe bigger than max value(60).")
                 /\ handlers[h].pc \in {"pub", "done", "raised"}
            ELSE /\ handlers[h].writes =
                        <<[signal |-> "Cabin.Seat.Row1.Pos1.Position",
                           value |-> ArrivedForward(handlers[h]) + 10]>>
                 /\ handlers[h].pubs = <<>>
                 /\ handlers[h].pc \in {"set", "done", "raised"}

\* C2: a seat-forward command that arrives with the tracker at the ceiling
\* (60) is rejected: no seat-position write, exactly one rejection on
\* tw_mcu/sdvos_voice_ctrl/response, and no step of it changes the tracker; a
\* command that arrives below the ceiling writes tracker + 10 and, when that
\* write returns, sets the tracker to that value.
C2_ForwardBound ==
    [][/\ C2_Outcome'
       /\ \A h \in Handlers :
             (StepOf(h) /\ IsVoice(handlers'[h], 0)) =>
                 IF ArrivedForward(handlers'[h]) >= 60
                 THEN seat_position_current' = seat_position_current
                 ELSE /\ handlers'[h].pc = "set" =>
                            /\ seat_position_current' = seat_position_current
                            /\ ArrivedForward(handlers'[h]) = seat_position_current
                      /\ handlers'[h].pc = "done" =>
                            seat_position_current' = ArrivedForward(handlers'[h]) + 10
      ]_vars

\* A seat-forward command rejected at the ceiling, its handler returned.
C2_Witness ==
    /\ seat_position_current = 60
    /\ \E h \in Handlers :
          /\ IsVoice(handlers[h], 0) /\ handlers[h].pc = "done"
          /\ handlers[h].writes = <<>>
          /\ Len(handlers[h].pubs) = 1

\* ------------------------------------------------------------------- C3
\* What holds of every seat-backward handler, in flight or ended: it is
\* rejected if and only if it arrived with the tracker at 40 or below; a
\* rejected one issued no write and exactly one rejection; an accepted one
\* issued exactly the write of tracker - 10 and published nothing.
C3_Outcome ==
    \A h \in Handlers :
        IsVoice(handlers[h], 1) =>
            IF ArrivedBackward(handlers[h]) <= 40
            THEN /\ handlers[h].writes = <<>>
                 /\ handlers[h].pubs =
                        Rejection("The Seat Position willbe litter than min value(40).")
                 /\ handlers[h].pc \in {"pub", "done", "raised"}
            ELSE /\ handlers[h].writes =
                        <<[signal |-> "Cabin.Seat.Row1.Pos1.Position",
                           value |-> ArrivedBackward(handlers[h]) - 10]>>
                 /\ handlers[h].pubs = <<>>
                 /\ handlers[h].pc \in {"set", "done", "raised"}

\* C3: a seat-backward command that arrives with the tracker at the floor
\* (40) is rejected: no seat-position write, exactly one rejection response,
\* and no step of it changes the tracker; a command that arrives above the
\* floor writes tracker - 10 and, when that write returns, sets the tracker
\* to that value.
C3_BackwardBound ==
    [][/\ C3_Outcome'
       /\ \A h \in Handlers :
             (StepOf(h) /\ IsVoice(handlers'[h], 1)) =>
                 IF ArrivedBackward(handlers'[h]) <= 40
                 THEN seat_position_current' = seat_position_current
                 ELSE /\ handlers'[h].pc = "set" =>
                            /\ seat_position_current' = seat_position_current
                            /\ ArrivedBackward(handlers'[h]) = seat_position_current
                      /\ handlers'[h].pc = "done" =>
                            seat_position_current' = ArrivedBackward(handlers'[h]) - 10
      ]_vars

\* A seat-backward command rejected at the floor, its handler returned.
C3_Witness ==
    /\ seat_position_current = 40
    /\ \E h \in Handlers :
          /\ IsVoice(handlers[h], 1) /\ handlers[h].pc = "done"
          /\ handlers[h].writes = <<>>
          /\ Len(handlers[h].pubs) = 1

\* ------------------------------------------------------------------- C4
\* C4: two seat-forward commands of which the second starts before the first
\* has completed its seat-position write end as some serial execution of the
\* two would: the bound check is not skipped. In a serial execution the
\* second command reads the tracker the first one left, so two accepted
\* commands never write the same position: from 50 one is accepted and one
\* rejected, from 40 they write 50 and then 60.
C4_Serial ==
    \A h, k \in Handlers :
        (/\ h # k
         /\ IsVoice(handlers[h], 0) /\ handlers[h].pc = "set"
         /\ IsVoice(handlers[k], 0) /\ handlers[k].pc = "set")
        => handlers[h].writes # handlers[k].writes

\* ------------------------------------------------------------------- C5
\* C5: a voice command, whatever its code, fires at most one rule of the
\* dispatch table: its handler never runs the writes of two rules (code 8
\* runs one target-then-stop sequence only).
C5_OneRule ==
    \A h \in Handlers :
        handlers[h].kind = "voice" =>
            /\ Len(handlers[h].fired) <= 1
            /\ Len(handlers[h].writes) <= 2

\* ------------------------------------------------------------------- C6
\* The axis and the target angle of each mirror command.
C6_Axis(n) == IF n \in {4, 5} THEN "Body.Mirrors.Left.Pan" ELSE "Body.Mirrors.Left.Tilt"

C6_Target(n) ==
    CASE n = 4 -> 120
      [] n = 5 -> 121
      [] n = 6 -> 122
      [] n = 7 -> 123

\* C6: the handler of a mirror command (4 pan left, 5 pan right, 6 tilt up,
\* 7 tilt down) issues, with no port failure, exactly two writes, both on the
\* axis of the command: the target angle first and, only when the wait of 2 s
\* is over, the stop angle 118; it issues no other write and publishes
\* nothing.
C6_MirrorSequence ==
    \A h \in Handlers : \A n \in 4..7 :
        IsVoice(handlers[h], n) =>
            LET target == [signal |-> C6_Axis(n), value |-> C6_Target(n)]
                stop == [signal |-> C6_Axis(n), value |-> 118]
            IN  /\ handlers[h].pubs = <<>>
                /\ handlers[h].pc \in {"set", "sleep"} =>
                       handlers[h].writes = <<target>>
                /\ handlers[h].pc \in {"stop", "done"} =>
                       handlers[h].writes = <<target, stop>>
                /\ handlers[h].pc = "raised" =>
                       handlers[h].writes \in {<<target>>, <<target, stop>>}

\* A pan-left command whose handler returned after its two writes, and a
\* tilt-down command waiting for its 2 s to pass.
C6_Witness ==
    \E h, k \in Handlers :
        /\ IsVoice(handlers[h], 4) /\ handlers[h].pc = "done"
        /\ handlers[h].writes =
               <<[signal |-> "Body.Mirrors.Left.Pan", value |-> 120],
                 [signal |-> "Body.Mirrors.Left.Pan", value |-> 118]>>
        /\ IsVoice(handlers[k], 7) /\ handlers[k].pc = "sleep"
        /\ handlers[k].writes =
               <<[signal |-> "Body.Mirrors.Left.Tilt", value |-> 123]>>

\* ------------------------------------------------------------------- C7
\* C7: a payload that is no JSON, on the voice-control topic or in a serial
\* frame, causes no signal write and no publish, and its decode failure is
\* caught inside the handler: no exception leaves the handler.
C7_MalformedCaught ==
    \A h \in Handlers :
        (handlers[h].kind = "voice" /\ handlers[h].json = "malformed") =>
            /\ handlers[h].writes = <<>>
            /\ handlers[h].pubs = <<>>
            /\ handlers[h].pc # "raised"

\* ------------------------------------------------------------------- C8
\* The frames whose only key is fan, with an int n >= 0.
C8_FanOnly(app) ==
    /\ app.json = "object"
    /\ app.dict = [NoKeys EXCEPT !.fan = app.dict.fan]
    /\ app.dict.fan.t = "int"
    /\ app.dict.fan.v >= 0

\* C8: for a frame whose only key is fan with a non-negative integer n, the
\* on_got_msg task issues exactly one write, the fan speed with value n, and
\* none to the seat position, the mirror or the lumbar support; the tracker
\* keeps its value.
C8_FanFrame ==
    C8_FanOnly(consumer.app) =>
        /\ consumer.pc \in {"set", "publish"}
        /\ Writes(consumer.log) =
               <<[signal |-> "Cabin.HVAC.Station.Row1.Left.FanSpeed",
                  value |-> consumer.app.dict.fan.v]>>
        /\ seat_position_current = 50

\* The frame {fan: 30} with all the blocks run and the publish issued.
C8_Witness ==
    /\ consumer.app = ObjectFrame([NoKeys EXCEPT !.fan = JInt(30)])
    /\ consumer.pc = "publish"
    /\ Writes(consumer.log) =
           <<[signal |-> "Cabin.HVAC.Station.Row1.Left.FanSpeed", value |-> 30]>>

\* ------------------------------------------------------------------- C9
\* What holds of every handler of a speed query: before its get returned it
\* has published nothing; after, it has published exactly once, on
\* sampleapp/getSpeed/response, status 0 and the message "Current Speed = "
\* followed by the value its own get returned; it issues no write.
C9_Outcome ==
    \A h \in Handlers :
        handlers[h].kind = "getSpeed" =>
            /\ handlers[h].writes = <<>>
            /\ handlers[h].pc = "get" => handlers[h].pubs = <<>>
            /\ handlers[h].pc \in {"pub", "done"} =>
                   handlers[h].pubs =
                       <<[topic |-> "sampleapp/getSpeed/response",
                          payload |-> [result |->
                              [status |-> 0,
                               message |-> "Current Speed = "
                                           \o ToString(handlers[h].speed)]]]>>
            /\ handlers[h].pc = "raised" => Len(handlers[h].pubs) <= 1

\* C9: each speed query whose get succeeds publishes exactly once on
\* sampleapp/getSpeed/response, with status 0 and the message "Current Speed
\* = " followed by the value that query's own get returned; it issues no
\* write and no step of it changes the tracker.
C9_SpeedQuery ==
    [][/\ C9_Outcome'
       /\ \A h \in Handlers :
             (StepOf(h) /\ handlers'[h].kind = "getSpeed") =>
                 seat_position_current' = seat_position_current
      ]_vars

\* Two queries in flight at once: one answered with speed 0 and returned, the
\* other with speed 1 and its publish awaited.
C9_Witness ==
    \E h, k \in Handlers :
        /\ handlers[h].kind = "getSpeed" /\ handlers[h].pc = "done"
        /\ handlers[h].pubs[1].payload.result.message = "Current Speed = 0"
        /\ handlers[k].kind = "getSpeed" /\ handlers[k].pc = "pub"
        /\ handlers[k].pubs[1].payload.result.message = "Current Speed = 1"

\* ------------------------------------------------------------------ C10
\* The key that names the category of each try block.
C10_Key(block) == block

\* The frame app without the key of a block.
C10_Without(app, block) ==
    [app EXCEPT !.dict = [k \in DOMAIN app.dict |->
                             IF k = C10_Key(block) THEN Absent ELSE app.dict[k]]]

\* C10: the five try blocks of on_got_msg are isolated. Whatever a block does
\* with a decoded frame (a missing key, a wrong type, a write that raises),
\* every later block is evaluated, in order, before the publish; and the
\* write each block issues is the one it would issue were the key of any
\* other block absent from the frame.
C10_BlocksIsolated ==
    consumer.pc \in {"set", "publish"} =>
        /\ \A i \in 1..Len(consumer.log) :
              /\ consumer.log[i].block = Blocks[i]
              /\ \A j \in 1..Len(Blocks) :
                    j # i =>
                        consumer.log[i].write =
                            BlockEval(Blocks[i],
                                      C10_Without(consumer.app, Blocks[j])).write
        /\ consumer.pc = "publish" => Len(consumer.log) = 5
        /\ consumer.pc = "set" =>
              /\ Len(consumer.log) = consumer.block
              /\ consumer.log[consumer.block].write # <<>>

\* A frame whose seatPos is no number and whose seatCali has no status: both
\* blocks raise; the aircell write raises as well; the fan write is issued
\* all the same.
C10_Witness ==
    /\ consumer.pc = "publish"
    /\ consumer.log[1].error = "ValueError"
    /\ consumer.log[2].error = "KeyError"
    /\ consumer.log[4].write # <<>>
    /\ consumer.failed
    /\ consumer.log[5].write =
           <<[signal |-> "Cabin.HVAC.Station.Row1.Left.FanSpeed", value |-> 30]>>

\* ------------------------------------------------------------------ C11
\* The publishes of pubs that went to a response topic.
C11_Responses(pubs) ==
    SelectSeq(pubs, LAMBDA p : p.topic \in {"tw_mcu/sdvos_voice_ctrl/response",
                                            "sampleapp/bt_cmd/reponse"})

\* C11: over its whole handling, a voice command (whatever its code, accepted
\* or rejected) and an auxiliary frame each cause at most one publish to a
\* response topic, however the handlers and the on_got_msg task interleave.
C11_OneResponse ==
    /\ \A h \in Handlers :
          handlers[h].kind = "voice" => Len(C11_Responses(handlers[h].pubs)) <= 1
    /\ Len(C11_Responses(consumer.pubs)) <= 1

\* A rejected seat-forward command whose handler returned after its one
\* response, while the on_got_msg task awaits the one response of a frame.
C11_Witness ==
    /\ \E h \in Handlers :
          /\ IsVoice(handlers[h], 0) /\ handlers[h].pc = "done"
          /\ Len(C11_Responses(handlers[h].pubs)) = 1
    /\ consumer.pc = "publish"
    /\ Len(C11_Responses(consumer.pubs)) = 1

\* ------------------------------------------------------------------ C12
\* The writes of hd from the first one of the rule it is in.
C12_RuleWrites(hd) ==
    LET r == VoiceRules[hd.rule]
        first == CHOOSE i \in 1..Len(hd.writes) :
                     /\ hd.writes[i] = [signal |-> r.signal, value |-> r.target]
                     /\ \A j \in 1..(i - 1) :
                            hd.writes[j] # [signal |-> r.signal, value |-> r.target]
    IN  SubSeq(hd.writes, first, Len(hd.writes))

\* What holds of a voice handler one of whose writes raised: the exception
\* ended the coroutine; of a target-then-stop rule whose first write failed
\* the only write is the target, issued once, and the stop was not attempted;
\* of one whose second write failed the writes are the target and the stop,
\* each once.
C12_Ended ==
    \A h \in Handlers :
        (handlers[h].kind = "voice" /\ handlers[h].failedAt \in {"set", "stop"}) =>
            /\ handlers[h].pc = "raised"
            /\ VoiceRules[handlers[h].rule].kind = "timed" =>
                  LET r == VoiceRules[handlers[h].rule]
                      target == [signal |-> r.signal, value |-> r.target]
                      stop == [signal |-> r.signal, value |-> r.stop]
                  IN  /\ handlers[h].failedAt = "set" =>
                            C12_RuleWrites(handlers[h]) = <<target>>
                      /\ handlers[h].failedAt = "stop" =>
                            C12_RuleWrites(handlers[h]) = <<target, stop>>
            /\ VoiceRules[handlers[h].rule].kind # "timed" =>
                  /\ handlers[h].failedAt = "set"
                  /\ Len(handlers[h].writes) = 1

\* C12: a signal write that fails is not retried and no further write of its
\* rule follows: the step at which a write of a voice handler raises issues
\* no write, and the coroutine takes no step afterwards. With a
\* target-then-stop rule, the failure of the first write leaves the stop
\* unattempted and the failure of the second leaves the first one issued.
C12_NoRetry ==
    [][/\ C12_Ended'
       /\ \A h \in Handlers :
             /\ (handlers[h].pc \in {"set", "stop"} /\ handlers'[h].failedAt # "")
                    => handlers'[h].writes = handlers[h].writes
             /\ (handlers[h].failedAt # "")
                    => \/ handlers'[h] = handlers[h]
                       \/ handlers'[h].failedAt = ""
      ]_vars

\* A pan-left command whose first write raised, its stop never issued, while
\* a tilt-up command has issued both its writes and awaits the second.
C12_Witness ==
    \E h, k \in Handlers :
        /\ IsVoice(handlers[h], 4) /\ handlers[h].failedAt = "set"
        /\ handlers[h].pc = "raised"
        /\ handlers[h].writes = <<[signal |-> "Body.Mirrors.Left.Pan", value |-> 120]>>
        /\ IsVoice(handlers[k], 6) /\ handlers[k].pc = "stop"
        /\ handlers[k].writes = <<[signal |-> "Body.Mirrors.Left.Tilt", value |-> 122],
                                  [signal |-> "Body.Mirrors.Left.Tilt", value |-> 118]>>

\* ------------------------------------------------------------------ C13
\* C13: a port failure never stops processing. Whatever publish has failed,
\* the on_got_msg task still has a step to take whenever a frame waits on the
\* queue, and the on_timer task still has its next step (the next heartbeat
\* or the sleep before it) to take.
C13_KeepsProcessing ==
    /\ msgQ # <<>> => ENABLED ConsumerNext
    /\ ENABLED TimerNext

\* ------------------------------------------------------------------ C14
\* C14: with the serial device not open (gSer None) on_start still completes
\* without error: once its subscribe has returned and the tasks are created,
\* no exception leaves it.
C14_StartCompletes ==
    (gSer = "None" /\ start.tasks) => start.pc # "raised"

\* ------------------------------------------------------------------ C15
\* The frames of q from the first one that is JSON.
RECURSIVE C15_Decodable(_)
C15_Decodable(q) ==
    IF q = <<>> THEN <<>>
    ELSE IF Head(q).json = "malformed" THEN C15_Decodable(Tail(q))
    ELSE q

\* C15: frames are consumed in the order the reader put them, each once, and
\* every one is consumed in the end when no port call fails. A frame read
\* joins the queue behind all that wait; whenever the on_got_msg task takes
\* frames, it takes them from the front: it drops the ones that are no JSON,
\* dispatches the oldest one that is, and all it took have left the queue,
\* the rest waiting in their order. And the task goes on taking frames for as
\* long as any waits: the queue is empty again and again, or the task takes
\* frames again and again.
C15_Fifo ==
    /\ [][/\ Len(msgQ') > Len(msgQ) =>
                 /\ Len(msgQ') = Len(msgQ) + 1
                 /\ SubSeq(msgQ', 1, Len(msgQ)) = msgQ
                 /\ consumer' = consumer
          /\ msgQ' # msgQ /\ Len(msgQ') <= Len(msgQ) =>
                 LET left == C15_Decodable(msgQ)
                 IN  /\ consumer.pc = "poll"
                     /\ IF left = <<>>
                        THEN msgQ' = <<>> /\ consumer'.pc = "poll"
                        ELSE /\ consumer'.app = Head(left)
                             /\ consumer'.pc \in {"set", "publish"}
                             /\ msgQ' = Tail(left)
          /\ consumer'.app # consumer.app /\ consumer'.app # NoFrame =>
                 msgQ' # msgQ
         ]_vars
    /\ ([]<>(msgQ = <<>>) \/ []<><<ConsumerPoll>>_vars)

\* Two different frames wait, the seatPos frame put before the seatCali one,
\* while the task still handles an earlier frame.
C15_Witness ==
    /\ Len(msgQ) = 1
    /\ msgQ[1] = ObjectFrame([NoKeys EXCEPT !.seatCali = JInt(1), !.status = JBool(TRUE)])
    /\ consumer.pc = "set"
    /\ consumer.app = ObjectFrame([NoKeys EXCEPT !.seatPos = JInt(100)])

\* ------------------------------------------------------------------ C16
\* Ten times the number p of a frame, so that a float with one decimal is
\* compared exactly.
C16_Tenths(p) == IF p.t = "float" THEN p.v ELSE 10 * p.v

\* C16: the seatPos passthrough is bounded to [1, 100]. For a frame whose
\* seatPos is a number p, the seatPos block issues a seat-position write of
\* value p if 1 <= p <= 100 and no write otherwise (p zero, negative or above
\* 100).
C16_Passthrough ==
    (/\ consumer.app.json = "object"
     /\ consumer.app.dict.seatPos.t \in {"int", "float"}
     /\ Len(consumer.log) >= 1) =>
        LET p == C16_Tenths(consumer.app.dict.seatPos)
            w == consumer.log[1].write
        IN  IF 10 <= p /\ p <= 1000
            THEN /\ Len(w) = 1
                 /\ w[1].signal = "Cabin.Seat.Row1.Pos1.Position"
                 /\ 10 * w[1].value = p
            ELSE w = <<>>

\* ------------------------------------------------------------------ C17
\* C17: seat_position_current is changed only by an accepted seat-forward or
\* seat-backward voice command. Every step that changes it is the return of
\* the seat-position write of such a command, and the new value is the one
\* written; the steps of the other voice codes, of the serial frames (also
\* those that write the seat position), of the speed relay and of the speed
\* query leave it as it is.
C17_TrackerOwner ==
    [][seat_position_current' # seat_position_current =>
          \E h \in Handlers :
              /\ IsVoice(handlers[h], 0) \/ IsVoice(handlers[h], 1)
              /\ handlers[h].pc = "set"
              /\ handlers'[h] = [handlers[h] EXCEPT !.pc = "done", !.rule = 0]
              /\ handlers[h].writes =
                     <<[signal |-> "Cabin.Seat.Row1.Pos1.Position",
                        value |-> seat_position_current']>>
      ]_vars

\* The tracker moved to 60 by a voice command and still there after a fan
\* command has returned and the frame {seatPos: 100} has had its
\* seat-position write.
C17_Witness ==
    /\ seat_position_current = 60
    /\ \E h \in Handlers :
          /\ IsVoice(handlers[h], 2) /\ handlers[h].pc = "done"
          /\ handlers[h].writes # <<>>
    /\ consumer.pc = "publish"
    /\ Writes(consumer.log) =
           <<[signal |-> "Cabin.Seat.Row1.Pos1.Position", value |-> 100]>>

\* ------------------------------------------------------------------ C18
\* C18: every seat-calibration movement can be stopped. For each direction d
\* (0 forward, 1 backward), the frame {seatCali: d, status: false} makes the
\* seatCali block issue the seat-position write 242 (stop), so that it is the
\* last seat-position write after the start frame and this one.
C18_StopFrame ==
    \A d \in {0, 1} :
        (/\ consumer.app.json = "object"
         /\ consumer.app.dict.seatCali = JInt(d)
         /\ consumer.app.dict.status = JBool(FALSE)
         /\ consumer.app.dict.stat_f = Absent
         /\ Len(consumer.log) >= 2) =>
            consumer.log[2].write =
                <<[signal |-> "Cabin.Seat.Row1.Pos1.Position", value |-> 242]>>

\* ------------------------------------------------------------------ C19
\* C19: mirror commands (codes 4 to 7) dispatched together, however their
\* steps interleave, with no port failure and no mirror frame: once every
\* handler has completed, each mirror axis that was written at all holds the
\* stop angle 118 as its last value.
C19_MirrorsAtRest ==
    (\A h \in Handlers : ~InFlight(handlers[h])) =>
        /\ mirror.Pan \in {<<>>, <<118>>}
        /\ mirror.Tilt \in {<<>>, <<118>>}

\* Both axes written and at rest after commands on each, the last handler
\* returned and none in flight.
C19_Witness ==
    /\ \A h \in Handlers : ~InFlight(handlers[h])
    /\ \E h \in Handlers : IsVoice(handlers[h], 5) /\ handlers[h].pc = "done"
    /\ mirror.Pan = <<118>>
    /\ mirror.Tilt = <<118>>

\* ------------------------------------------------------------------ C20
\* C20: when the awaited seat-position write of an accepted seat-forward or
\* seat-backward command raises, the step leaves seat_position_current as it
\* was (the tracker moves only when the write has returned), the handler
\* ends there and it has published no response.
C20_FailedWriteKeepsTracker ==
    [][\A h \in Handlers :
          (/\ IsVoice(handlers[h], 0) \/ IsVoice(handlers[h], 1)
           /\ handlers[h].pc = "set"
           /\ handlers'[h].failedAt = "set") =>
              /\ seat_position_current' = seat_position_current
              /\ handlers'[h].pc = "raised"
              /\ handlers'[h].pubs = <<>>
              /\ handlers'[h].writes = handlers[h].writes
      ]_vars

\* A seat-forward command accepted at 50 whose write of 60 raised: the
\* tracker is still 50.
C20_Witness ==
    /\ seat_position_current = 50
    /\ \E h \in Handlers :
          /\ IsVoice(handlers[h], 0)
          /\ handlers[h].failedAt = "set"
          /\ handlers[h].writes =
                 <<[signal |-> "Cabin.Seat.Row1.Pos1.Position", value |-> 60]>>
          /\ handlers[h].pubs = <<>>

====
